---- MODULE Spec2Model ----
(***************************************************************************)
(* State-machine model of the Simplified_Router repository:                *)
(*   NetworkInterface (network_interface.cc / network_interface.hh) and    *)
(*   Router (src/router.cc).                                               *)
(*                                                                         *)
(* IPv4 addresses are tuples of four octets, Ethernet addresses are        *)
(* strings.  size_t values are kept as their residue modulo 2^64 in the    *)
(* range -1 .. 2^31 (SIZE_MAX is the residue -1); a difference that is *)
(* negative as an integer stands for the wrapped value 2^64 + difference.  *)
(***************************************************************************)
EXTENDS Integers, Sequences, FiniteSets, TLC

VARIABLES
  curr_time,        \* size_t curr_time: one file-scope clock shared by all interfaces
  ARP_table,        \* per interface: IP -> [MAC_addr, caching_time]
  request_history,  \* per interface: IP -> time of the last ARP request
  waiting_q,        \* per interface: queue of Waiting_Packet
  ready2_sent_q,    \* per interface: queue of EthernetFrame
  routing_table_,   \* Router: vector of RoutingTableElement
  nextId,           \* identity given to the next datagram entering the system
  ticks,            \* number of tick calls made so far
  lastOp,           \* history: the call that produced this state, with its arguments
  appended,         \* history: per interface, frames the last call pushed on ready2_sent_q
  lastReqAt,        \* history: per interface, IP -> clock at the last ARP request frame pushed
  learnedAt,        \* history: per interface, IP -> clock at the last ARP message heard from it
  lastSendAt        \* history: per interface, IP -> clock at the last send_datagram towards it

vars == <<curr_time, ARP_table, request_history, waiting_q, ready2_sent_q,
          routing_table_, nextId, ticks, lastOp, appended, lastReqAt, learnedAt,
          lastSendAt>>

----------------------------------------------------------------------------
\* Bounds of the model

\* Number of tick calls in one behaviour.
MaxTicks == 1
\* Number of datagrams that enter the system in one behaviour.
MaxDgrams == 3
\* Largest length of an interface's ready-to-be-sent queue: a caller drains it before it grows longer.
MaxReady == 2
\* Largest number of routes in the routing table.
MaxRoutes == 2
\* Number of datagrams the router forwards in one behaviour.
MaxForwarded == 2

\* Program constants
MAX_CACHE_TIME == 30000
MAX_WAITING_TIME == 5000
\* SIZE_MAX = 2^64 - 1, kept as its residue modulo 2^64.
SIZE_MAX == -1

----------------------------------------------------------------------------
\* Interfaces, addresses and input sets

Ifaces == {0, 1}

ETHERNET_BROADCAST == "ff:ff:ff:ff:ff:ff"
\* A value-initialised EthernetAddress ({}).
ZeroMac == "00:00:00:00:00:00"

ethernet_address_(n) == IF n = 0 THEN "aa:aa:aa:aa:aa:aa" ELSE "a1:a1:a1:a1:a1:a1"
ip_address_(n) == IF n = 0 THEN <<10, 0, 0, 1>> ELSE <<192, 168, 0, 254>>

TYPE_IPv4 == "IPv4"
TYPE_ARP == "ARP"
OPCODE_REQUEST == "REQUEST"
OPCODE_REPLY == "REPLY"

IpX == <<10, 0, 0, 2>>
IpY == <<10, 0, 0, 3>>
\* Next hops used by send_datagram calls, and senders of ARP messages.
PeerIPs == {IpX, IpY}
\* Link addresses of the peers: IpX is seen behind MacB and MacB2, IpY behind MacC.
MacB == "bb:bb:bb:bb:bb:bb"
MacB2 == "b2:b2:b2:b2:b2:b2"
MacC == "cc:cc:cc:cc:cc:cc"
OtherMac == "dd:dd:dd:dd:dd:dd"
\* Elapsed times passed to tick.
TickSteps == {4999, 5000, 30001}

None == [none |-> TRUE]

----------------------------------------------------------------------------
\* size_t arithmetic (residues modulo 2^64, see the header comment)

USub(a, b) == a - b
ULess(d, c) == d >= 0 /\ d < c
UGreater(d, c) == d < 0 \/ d > c
UGeq(d, c) == d < 0 \/ d >= c

----------------------------------------------------------------------------
\* Wire codecs (serialize / parse): a payload is a tagged copy of the value.

serialize_dgram(dgram) == [kind |-> TYPE_IPv4, body |-> dgram]
serialize_arp(msg) == [kind |-> TYPE_ARP, body |-> msg]
Garbage == [kind |-> "garbage", body |-> None]
parse_ok(kind, payload) == payload.kind = kind

----------------------------------------------------------------------------
\* NetworkInterface helpers

make_arp_message(sender_eth, sender_ip, target_eth, target_ip, opcode) ==
  [sender_ip_address |-> sender_ip,
   sender_ethernet_address |-> sender_eth,
   target_ip_address |-> target_ip,
   target_ethernet_address |-> target_eth,
   opcode |-> opcode]

make_ethernet_frame(dst, src, type, payload) ==
  [dst |-> dst, src |-> src, type |-> type, payload |-> payload]

Waiting_Packet(dst_ip, frame, time) ==
  [dst_ip |-> dst_ip, waiting_frame |-> frame, time |-> time]

\* std::map operations
MapHas(m, k) == k \in DOMAIN m
MapPut(m, k, v) == [x \in (DOMAIN m) \cup {k} |-> IF x = k THEN v ELSE m[x]]
MapErase(m, ks) == [x \in (DOMAIN m) \ ks |-> m[x]]
EmptyMap == [x \in {} |-> 0]

\* The fields of interface n as one record, and the datagram a caller passes in.
\* The clock interface n reads: the one curr_time of line 8.
ClockSeenBy(n) == curr_time

IfaceState(n) ==
  [ARP_table |-> ARP_table[n], request_history |-> request_history[n],
   waiting_q |-> waiting_q[n], ready2_sent_q |-> ready2_sent_q[n]]

InternetDatagram(id, ttl, dst, cksum) ==
  [id |-> id, ttl |-> ttl, dst |-> dst, cksum |-> cksum]

----------------------------------------------------------------------------
\* NetworkInterface::send_datagram

\* Variant of the test of line 92 that never throttles.
RequestSentRecently_Unthrottled(now, last_sent) == FALSE

\* The test of line 92: a request was sent less than MAX_WAITING_TIME ago.
RequestSentRecently(now, last_sent) ==
  ULess(USub(now, last_sent), MAX_WAITING_TIME)

\* Variant of the cache-hit frame that ignores the cached address.
HitFrame_Broadcast(n, S, dgram, next_hop_ip) ==
  make_ethernet_frame(ETHERNET_BROADCAST, ethernet_address_(n),
                      TYPE_IPv4, serialize_dgram(dgram))

\* The frame built on a cache hit (lines 64-67).
HitFrame(n, S, dgram, next_hop_ip) ==
  make_ethernet_frame(S.ARP_table[next_hop_ip].MAC_addr, ethernet_address_(n),
                      TYPE_IPv4, serialize_dgram(dgram))

\* Variant of the ARP request frame that is not broadcast.
ARP_request_frame_Unaddressed(n, next_hop_ip) ==
  make_ethernet_frame(ZeroMac, ethernet_address_(n), TYPE_ARP,
    serialize_arp(make_arp_message(ethernet_address_(n), ip_address_(n),
                                   ZeroMac, next_hop_ip, OPCODE_REQUEST)))

\* The broadcast ARP request frame of lines 78-83.
ARP_request_frame(n, next_hop_ip) ==
  make_ethernet_frame(ETHERNET_BROADCAST, ethernet_address_(n), TYPE_ARP,
    serialize_arp(make_arp_message(ethernet_address_(n), ip_address_(n),
                                   ZeroMac, next_hop_ip, OPCODE_REQUEST)))

\* The datagram's frame without a destination (line 86).
ether_frame_no_MAC(n, dgram) ==
  make_ethernet_frame(ZeroMac, ethernet_address_(n), TYPE_IPv4, serialize_dgram(dgram))

\* Lines 88-100: what the miss branch does about the ARP request.
SendRequestStep(S, now, n, next_hop_ip) ==
  IF ~MapHas(S.request_history, next_hop_ip)
  THEN [S EXCEPT !.request_history = MapPut(@, next_hop_ip, now),
                 !.ready2_sent_q = Append(@, ARP_request_frame(n, next_hop_ip))]
  ELSE IF RequestSentRecently(now, S.request_history[next_hop_ip])
  THEN [S EXCEPT !.waiting_q =
          Append(@, Waiting_Packet(next_hop_ip, ARP_request_frame(n, next_hop_ip), SIZE_MAX))]
  ELSE [S EXCEPT !.request_history = MapPut(@, next_hop_ip, now),
                 !.ready2_sent_q = Append(@, ARP_request_frame(n, next_hop_ip))]

send_datagram(S, now, n, dgram, next_hop_ip) ==
  IF MapHas(S.ARP_table, next_hop_ip)
  THEN [S EXCEPT !.ready2_sent_q = Append(@, HitFrame(n, S, dgram, next_hop_ip))]
  ELSE LET S1 == SendRequestStep(S, now, n, next_hop_ip)
       IN [S1 EXCEPT !.waiting_q =
             Append(@, Waiting_Packet(next_hop_ip, ether_frame_no_MAC(n, dgram), now))]

----------------------------------------------------------------------------
\* NetworkInterface::recv_frame

\* Line 115 and lines 120-121: which branch a frame takes.
IsIPv4ForUs(n, frame) ==
  frame.dst = ethernet_address_(n) /\ frame.type = TYPE_IPv4

\* Variant of the ARP branch test that ignores broadcast frames.
IsARPForUs_UnicastOnly(n, frame) ==
  frame.dst = ethernet_address_(n) /\ frame.type = TYPE_ARP

IsARPForUs(n, frame) ==
  \/ (frame.dst = ethernet_address_(n) /\ frame.type = TYPE_ARP)
  \/ (frame.dst = ETHERNET_BROADCAST /\ frame.type = TYPE_ARP)

\* Variant of the flushed frame that keeps the unresolved destination.
FlushFrame_Unaddressed(curr_first, sender_mac_addr) == curr_first.waiting_frame

\* Lines 154-155: the waiting frame, addressed to the resolved link address.
FlushFrame(curr_first, sender_mac_addr) ==
  [curr_first.waiting_frame EXCEPT !.dst = sender_mac_addr]

\* Variant of the test of line 150 that keeps no item.
OtherNextHop_None(sender_ip, curr_first) == FALSE

\* Line 150: the waiting item is for another next hop than the reply's sender.
OtherNextHop(sender_ip, curr_first) == sender_ip # curr_first.dst_ip

\* Lines 146-161: the scan of the waiting queue on an ARP reply.
\* acc = [ready |-> ready2_sent_q so far, temp |-> temp_q so far]
RECURSIVE FlushLoop(_, _, _, _)
FlushLoop(q, acc, sender_ip, sender_mac_addr) ==
  IF q = <<>> THEN acc
  ELSE LET curr_first == Head(q)
           first_frame_type == curr_first.waiting_frame.type
           acc1 ==
             IF OtherNextHop(sender_ip, curr_first)
             THEN [acc EXCEPT !.temp = Append(@, curr_first)]
             ELSE IF sender_ip = curr_first.dst_ip /\ first_frame_type = TYPE_IPv4
             THEN [acc EXCEPT !.ready = Append(@, FlushFrame(curr_first, sender_mac_addr))]
             ELSE acc
       IN FlushLoop(Tail(q), acc1, sender_ip, sender_mac_addr)

\* Lines 132 and 143: the two conditions on a decoded ARP message.
\* Variant of the request test that answers for any target IP.
IsRequestForUs_AnyTarget(n, msg) == msg.opcode = OPCODE_REQUEST

IsRequestForUs(n, msg) ==
  msg.opcode = OPCODE_REQUEST /\ ip_address_(n) = msg.target_ip_address

IsReplyForUs(n, msg) ==
  msg.opcode = OPCODE_REPLY /\ ip_address_(n) = msg.target_ip_address

\* Lines 134-139: the reply to a request for our address.
ARP_reply_frame(n, sender_mac_addr, sender_ip) ==
  make_ethernet_frame(sender_mac_addr, ethernet_address_(n), TYPE_ARP,
    serialize_arp(make_arp_message(ethernet_address_(n), ip_address_(n),
                                   sender_mac_addr, sender_ip, OPCODE_REPLY)))

\* Lines 124-162: a decoded ARP message.
HandleARP(S, now, n, msg) ==
  LET sender_ip == msg.sender_ip_address
      sender_mac_addr == msg.sender_ethernet_address
      S1 == [S EXCEPT !.ARP_table =
               MapPut(@, sender_ip, [MAC_addr |-> sender_mac_addr, caching_time |-> now])]
  IN IF IsRequestForUs(n, msg)
     THEN [S1 EXCEPT !.ready2_sent_q = Append(@, ARP_reply_frame(n, sender_mac_addr, sender_ip))]
     ELSE IF IsReplyForUs(n, msg)
     THEN LET r == FlushLoop(S1.waiting_q, [ready |-> S1.ready2_sent_q, temp |-> <<>>],
                             sender_ip, sender_mac_addr)
          IN [S1 EXCEPT !.ready2_sent_q = r.ready, !.waiting_q = r.temp]
     ELSE S1

\* Returns [state |-> interface state after the call, res |-> optional datagram].
recv_frame(S, now, n, frame) ==
  IF IsIPv4ForUs(n, frame)
  THEN [state |-> S,
        res |-> IF parse_ok(TYPE_IPv4, frame.payload) THEN frame.payload.body ELSE None]
  ELSE IF IsARPForUs(n, frame)
  THEN [state |-> IF parse_ok(TYPE_ARP, frame.payload)
                  THEN HandleARP(S, now, n, frame.payload.body) ELSE S,
        res |-> None]
  ELSE [state |-> S, res |-> None]

----------------------------------------------------------------------------
\* NetworkInterface::tick

\* Line 178: a cache entry learnt more than MAX_CACHE_TIME ago.
CacheExpired(now, caching_time) ==
  UGreater(USub(now, caching_time), MAX_CACHE_TIME)

\* Lines 175-188: the expired IPs are collected, then erased.
ExpireCache(table, now) ==
  MapErase(table, {ip \in DOMAIN table : CacheExpired(now, table[ip].caching_time)})

\* Lines 197-199: the queued item is an ARP request whose retransmission is due.
ResendDue(now, ARP_caching_time, curr_first) ==
  /\ UGeq(USub(now, ARP_caching_time), MAX_WAITING_TIME)
  /\ curr_first.waiting_frame.type = TYPE_ARP
  /\ curr_first.waiting_frame.dst = ETHERNET_BROADCAST

\* Variant of the test of lines 205-206 that ages datagram items too.
KeepWaiting_Aged(now, curr_first) ==
  ULess(USub(now, curr_first.time), MAX_WAITING_TIME)

\* Lines 205-206: the queued item stays in the waiting queue.
KeepWaiting(now, curr_first) ==
  \/ curr_first.waiting_frame.type = TYPE_IPv4
  \/ ULess(USub(now, curr_first.time), MAX_WAITING_TIME)

\* Lines 191-212: the scan of the waiting queue.
\* acc = [request_history, ready, temp]; request_history[first_ip] inserts 0 when absent.
RECURSIVE TickLoop(_, _, _)
TickLoop(q, acc, now) ==
  IF q = <<>> THEN acc
  ELSE LET curr_first == Head(q)
           first_ip == curr_first.dst_ip
           rh == IF MapHas(acc.request_history, first_ip) THEN acc.request_history
                 ELSE MapPut(acc.request_history, first_ip, 0)
           ARP_caching_time == rh[first_ip]
           acc1 ==
             IF ResendDue(now, ARP_caching_time, curr_first)
             THEN [request_history |-> MapPut(rh, first_ip, now),
                   ready |-> Append(acc.ready, curr_first.waiting_frame),
                   temp |-> acc.temp]
             ELSE IF KeepWaiting(now, curr_first)
             THEN [request_history |-> rh, ready |-> acc.ready,
                   temp |-> Append(acc.temp, curr_first)]
             ELSE [request_history |-> rh, ready |-> acc.ready, temp |-> acc.temp]
       IN TickLoop(Tail(q), acc1, now)

\* now is curr_time after line 174.
tick(S, now) ==
  LET r == TickLoop(S.waiting_q,
                    [request_history |-> S.request_history,
                     ready |-> S.ready2_sent_q, temp |-> <<>>], now)
  IN [ARP_table |-> ExpireCache(S.ARP_table, now),
      request_history |-> r.request_history,
      waiting_q |-> r.temp,
      ready2_sent_q |-> r.ready]

\* NetworkInterface::maybe_send: [queue after the call, res |-> optional frame]
maybe_send(S) ==
  IF S.ready2_sent_q # <<>>
  THEN [state |-> [S EXCEPT !.ready2_sent_q = Tail(@)], res |-> Head(S.ready2_sent_q)]
  ELSE [state |-> S, res |-> None]

----------------------------------------------------------------------------
\* Router: 32-bit words are sequences of 32 bits, most significant bit first.

Bits32 == 1 .. 32
OctetBit(o, j) == (o \div (2 ^ (8 - j))) % 2
\* Address::ipv4_numeric of a dotted address, as a 32-bit word.
ToWord(ip) == [i \in Bits32 |-> OctetBit(ip[((i - 1) \div 8) + 1], ((i - 1) % 8) + 1)]
ZeroWord == [i \in Bits32 |-> 0]
\* numeric_limits<int>::min()
INT_MIN_Word == [i \in Bits32 |-> IF i = 1 THEN 1 ELSE 0]
\* >> on a signed int: the sign bit is shifted in.
ShiftRightArith(w, k) == [i \in Bits32 |-> IF i <= k THEN w[1] ELSE w[i - k]]
BitAnd(a, b) == [i \in Bits32 |-> a[i] * b[i]]

RoutingTableElement(route_prefix, prefix_length, next_hop, interface_num) ==
  [route_prefix_ |-> route_prefix, prefix_length_ |-> prefix_length,
   next_hop_ |-> next_hop, interface_num_ |-> interface_num]

\* Router::add_route
add_route(table, route_prefix, prefix_length, next_hop, interface_num) ==
  Append(table, RoutingTableElement(route_prefix, prefix_length, next_hop, interface_num))

\* Lines 43-46: the mask of one routing table element.
bitmask(prefix_length) ==
  IF prefix_length > 0 /\ prefix_length <= 32
  THEN ShiftRightArith(INT_MIN_Word, prefix_length - 1)
  ELSE ZeroWord

\* Line 50: the element at hand replaces the best route found so far.
BetterRoute(target_prefix, longest_prefix_len, elem) ==
  /\ target_prefix = ToWord(elem.route_prefix_)
  /\ longest_prefix_len <= elem.prefix_length_

\* Lines 41-54: the scan of the routing table; i is the 0-based loop index.
\* acc = [target_index, longest_prefix_len]
RECURSIVE RouteLoop(_, _, _, _)
RouteLoop(table, i, acc, dest) ==
  IF i >= Len(table) THEN acc
  ELSE LET elem == table[i + 1]
           target_prefix == BitAnd(bitmask(elem.prefix_length_), ToWord(dest))
           acc1 == IF BetterRoute(target_prefix, acc.longest_prefix_len, elem)
                   THEN [target_index |-> i, longest_prefix_len |-> elem.prefix_length_]
                   ELSE acc
       IN RouteLoop(table, i + 1, acc1, dest)

\* Lines 32-54: the index of the best route, or -1.
FindRoute(table, dest) ==
  RouteLoop(table, 0, [target_index |-> -1, longest_prefix_len |-> -1], dest).target_index

\* IPv4Header::compute_checksum: the checksum covers the TTL.
compute_checksum(dgram) == [dgram EXCEPT !.cksum = dgram.ttl]

\* Variant of the TTL test that lets a zero TTL through.
TtlExpired_Negative(ttl) == ttl < 0

\* Line 36 and line 62: the uint8_t TTL test.
TtlExpired(ttl) == ttl <= 0

\* Router::route_single_dgram.  Returns the caller's datagram after the call
\* (it is passed by reference), the send_datagram call made, if any, and the
\* number of compute_checksum calls made.
route_single_dgram(table, dgram) ==
  IF TtlExpired(dgram.ttl) THEN [dgram |-> dgram, send |-> None, checksums |-> 0]
  ELSE LET target_index == FindRoute(table, dgram.dst) IN
    IF target_index = -1 THEN [dgram |-> dgram, send |-> None, checksums |-> 0]
    ELSE LET d1 == [dgram EXCEPT !.ttl = (dgram.ttl - 1) % 256] IN
      IF TtlExpired(d1.ttl) THEN [dgram |-> d1, send |-> None, checksums |-> 0]
      ELSE LET elem == table[target_index + 1]
           IN [dgram |-> compute_checksum(d1),
               send |-> [interface |-> elem.interface_num_,
                         next_hop |-> IF elem.next_hop_ # None THEN elem.next_hop_
                                      ELSE dgram.dst],
               checksums |-> 1]

----------------------------------------------------------------------------
\* History variables

\* The frames a call pushed on a ready-to-be-sent queue.
Pushed(before, after) ==
  IF Len(after) > Len(before) THEN SubSeq(after, Len(before) + 1, Len(after)) ELSE <<>>

IsARPRequestFrame(f) ==
  f.type = TYPE_ARP /\ f.dst = ETHERNET_BROADCAST /\ f.payload.body.opcode = OPCODE_REQUEST

RequestTarget(f) == f.payload.body.target_ip_address

NoteRequests(m, frames, now) ==
  LET ips == {RequestTarget(frames[k]) : k \in {j \in 1 .. Len(frames) : IsARPRequestFrame(frames[j])}}
  IN [x \in (DOMAIN m) \cup ips |-> IF x \in ips THEN now ELSE m[x]]

\* An ARP message reached interface n: an ARP frame for it or for everyone, well formed.
HeardARP(n, frame) ==
  /\ frame.type = TYPE_ARP
  /\ frame.dst \in {ethernet_address_(n), ETHERNET_BROADCAST}
  /\ frame.payload.kind = TYPE_ARP

\* Interface n takes state S at clock now; the history follows.
SetIface(n, S, now, pushed) ==
  /\ ARP_table' = [ARP_table EXCEPT ![n] = S.ARP_table]
  /\ request_history' = [request_history EXCEPT ![n] = S.request_history]
  /\ waiting_q' = [waiting_q EXCEPT ![n] = S.waiting_q]
  /\ ready2_sent_q' = [ready2_sent_q EXCEPT ![n] = S.ready2_sent_q]
  /\ appended' = [k \in Ifaces |-> IF k = n THEN pushed ELSE <<>>]
  /\ lastReqAt' = [lastReqAt EXCEPT ![n] = NoteRequests(@, pushed, now)]

----------------------------------------------------------------------------
\* Inputs

\* The datagrams an interface's owner sends: id is the datagram's identity.
SentDgram(id, next_hop_ip) == InternetDatagram(id, 64, next_hop_ip, 64)

\* An ARP frame as a peer puts it on the wire: requests are broadcast, replies unicast.
ARPFrame(dst, sender_ip, sender_eth, target_ip, opcode) ==
  make_ethernet_frame(dst, sender_eth, TYPE_ARP,
    serialize_arp(make_arp_message(sender_eth, sender_ip,
                                   IF opcode = OPCODE_REPLY THEN dst ELSE ZeroMac,
                                   target_ip, opcode)))

\* The frames that arrive at interface n.
RecvFrames(n) ==
  { ARPFrame(ethernet_address_(n), IpX, MacB, ip_address_(n), OPCODE_REPLY),
    ARPFrame(ethernet_address_(n), IpX, MacB2, ip_address_(n), OPCODE_REPLY),
    ARPFrame(ethernet_address_(n), IpY, MacC, ip_address_(n), OPCODE_REPLY),
    ARPFrame(ethernet_address_(n), IpX, MacB, IpY, OPCODE_REPLY),
    ARPFrame(ETHERNET_BROADCAST, IpX, MacB, ip_address_(n), OPCODE_REQUEST),
    ARPFrame(ETHERNET_BROADCAST, IpX, MacB, IpY, OPCODE_REQUEST),
    ARPFrame(OtherMac, IpX, MacB, ip_address_(n), OPCODE_REPLY),
    make_ethernet_frame(ethernet_address_(n), MacB, TYPE_ARP, Garbage),
    make_ethernet_frame(ethernet_address_(n), MacB, TYPE_IPv4,
                        serialize_dgram(SentDgram(0, ip_address_(n)))) }

\* The frames of the wire of the two-interface specification: a reply from IpX
\* to us, and a broadcast request from IpX for someone else.
LiveFrames(n) ==
  {ARPFrame(ethernet_address_(n), IpX, MacB, ip_address_(n), OPCODE_REPLY),
   ARPFrame(ETHERNET_BROADCAST, IpX, MacB, IpY, OPCODE_REQUEST)}

RoutePrefixes == {<<0, 0, 0, 0>>, <<192, 168, 0, 0>>}
PrefixLengths == {0, 24, 33}
Gateway == <<192, 168, 0, 1>>
NextHops == {None, Gateway}
Destinations == {<<192, 168, 0, 5>>, <<8, 8, 8, 8>>}
ArrivalTTLs == {0, 1, 2}

----------------------------------------------------------------------------
\* Init and the actions

Init ==
  /\ curr_time = 0
  /\ ARP_table = [n \in Ifaces |-> EmptyMap]
  /\ request_history = [n \in Ifaces |-> EmptyMap]
  /\ waiting_q = [n \in Ifaces |-> <<>>]
  /\ ready2_sent_q = [n \in Ifaces |-> <<>>]
  /\ routing_table_ = <<>>
  /\ nextId = 1
  /\ ticks = 0
  /\ lastOp = [op |-> "init"]
  /\ appended = [n \in Ifaces |-> <<>>]
  /\ lastReqAt = [n \in Ifaces |-> EmptyMap]
  /\ learnedAt = [n \in Ifaces |-> EmptyMap]
  /\ lastSendAt = [n \in Ifaces |-> EmptyMap]

SendDatagram(n, next_hop_ip) ==
  /\ nextId <= MaxDgrams
  /\ Len(ready2_sent_q[n]) < MaxReady
  /\ \E dgram \in {SentDgram(nextId, next_hop_ip)} :
       \E S \in {send_datagram(IfaceState(n), curr_time, n, dgram, next_hop_ip)} :
         /\ SetIface(n, S, curr_time, Pushed(ready2_sent_q[n], S.ready2_sent_q))
         /\ lastOp' = [op |-> "send_datagram", iface |-> n, dgram |-> dgram,
                       next_hop |-> next_hop_ip]
  /\ lastSendAt' = [lastSendAt EXCEPT ![n] = MapPut(@, next_hop_ip, curr_time)]
  /\ nextId' = nextId + 1
  /\ UNCHANGED <<curr_time, routing_table_, ticks, learnedAt>>

RecvFrame(n, frame) ==
  /\ \E r \in {recv_frame(IfaceState(n), curr_time, n, frame)} :
       /\ Len(r.state.ready2_sent_q) <= MaxReady
       /\ SetIface(n, r.state, curr_time, Pushed(ready2_sent_q[n], r.state.ready2_sent_q))
       /\ lastOp' = [op |-> "recv_frame", iface |-> n, res |-> r.res]
  /\ learnedAt' = IF HeardARP(n, frame)
                  THEN [learnedAt EXCEPT ![n] =
                          MapPut(@, frame.payload.body.sender_ip_address, curr_time)]
                  ELSE learnedAt
  /\ UNCHANGED <<curr_time, routing_table_, nextId, ticks, lastSendAt>>

Tick(n, ms_since_last_tick) ==
  /\ ticks < MaxTicks
  /\ ticks' = ticks + 1
  /\ curr_time' = curr_time + ms_since_last_tick
  /\ \E S \in {tick(IfaceState(n), curr_time + ms_since_last_tick)} :
       /\ Len(S.ready2_sent_q) <= MaxReady
       /\ SetIface(n, S, curr_time + ms_since_last_tick,
                   Pushed(ready2_sent_q[n], S.ready2_sent_q))
       /\ lastOp' = [op |-> "tick", iface |-> n, ms |-> ms_since_last_tick]
  /\ UNCHANGED <<routing_table_, nextId, learnedAt, lastSendAt>>

MaybeSend(n) ==
  /\ ready2_sent_q[n] # <<>>
  /\ \E r \in {maybe_send(IfaceState(n))} :
       /\ SetIface(n, r.state, curr_time, <<>>)
       /\ lastOp' = [op |-> "maybe_send", iface |-> n, res |-> r.res]
  /\ UNCHANGED <<curr_time, routing_table_, nextId, ticks, learnedAt, lastSendAt>>

AddRoute(route_prefix, prefix_length, next_hop, interface_num) ==
  /\ Len(routing_table_) < MaxRoutes
  /\ routing_table_' = add_route(routing_table_, route_prefix, prefix_length,
                                 next_hop, interface_num)
  /\ lastOp' = [op |-> "add_route"]
  /\ appended' = [k \in Ifaces |-> <<>>]
  /\ UNCHANGED <<curr_time, ARP_table, request_history, waiting_q, ready2_sent_q,
                 nextId, ticks, lastReqAt, learnedAt, lastSendAt>>

\* A datagram arrives with a valid checksum and is forwarded.
RouteSingleDgram(ttl, dst) ==
  /\ nextId <= MaxForwarded
  /\ \A k \in Ifaces : Len(ready2_sent_q[k]) < MaxReady
  /\ \E arrival \in {InternetDatagram(nextId, ttl, dst, ttl)} :
       \E r \in {route_single_dgram(routing_table_, arrival)} :
         /\ lastOp' = [op |-> "route_single_dgram", arrival |-> arrival,
                       dgram |-> r.dgram, send |-> r.send, checksums |-> r.checksums]
         /\ IF r.send = None
            THEN /\ appended' = [k \in Ifaces |-> <<>>]
                 /\ UNCHANGED <<ARP_table, request_history, waiting_q, ready2_sent_q,
                                lastReqAt, lastSendAt>>
            ELSE \E S \in {send_datagram(IfaceState(r.send.interface), curr_time,
                                         r.send.interface, r.dgram, r.send.next_hop)} :
                   /\ SetIface(r.send.interface, S, curr_time,
                               Pushed(ready2_sent_q[r.send.interface], S.ready2_sent_q))
                   /\ lastSendAt' = [lastSendAt EXCEPT ![r.send.interface] =
                                       MapPut(@, r.send.next_hop, curr_time)]
  /\ nextId' = nextId + 1
  /\ UNCHANGED <<curr_time, routing_table_, ticks, learnedAt>>

----------------------------------------------------------------------------
\* Specifications

\* One network interface driven by its owner, the wire and the clock.
Next ==
  \/ \E ip \in PeerIPs : SendDatagram(0, ip)
  \/ \E f \in RecvFrames(0) : RecvFrame(0, f)
  \/ \E ms \in TickSteps : Tick(0, ms)
  \/ MaybeSend(0)

Spec == Init /\ [][Next]_vars

\* The router forwarding datagrams to its interfaces.
RouterNext ==
  \/ \E p \in RoutePrefixes, l \in PrefixLengths, h \in NextHops, k \in Ifaces :
       AddRoute(p, l, h, k)
  \/ \E t \in ArrivalTTLs, d \in Destinations : RouteSingleDgram(t, d)

RouterSpec == Init /\ [][RouterNext]_vars

\* The two network interfaces of one process, each driven by its owner.
TwoIfaceNext ==
  \/ \E n \in Ifaces, ip \in PeerIPs : SendDatagram(n, ip)
  \/ \E n \in Ifaces : \E f \in LiveFrames(n) : RecvFrame(n, f)
  \/ \E n \in Ifaces, ms \in TickSteps : Tick(n, ms)
  \/ \E n \in Ifaces : MaybeSend(n)

TwoIfaceSpec == Init /\ [][TwoIfaceNext]_vars


----------------------------------------------------------------------------
\* Vocabulary of the properties

\* The datagram items of a waiting queue, and those tagged with next hop X.
IPv4Items(q) == SelectSeq(q, LAMBDA p : p.waiting_frame.type = TYPE_IPv4)
ItemsFor(q, X) ==
  SelectSeq(q, LAMBDA p : p.dst_ip = X /\ p.waiting_frame.type = TYPE_IPv4)

\* Number of broadcast ARP requests for X among frames.
RequestsFor(frames, X) ==
  Cardinality({k \in 1 .. Len(frames) :
                 IsARPRequestFrame(frames[k]) /\ RequestTarget(frames[k]) = X})

\* Number of IPv4 frames among frames.
IPv4Frames(frames) ==
  Cardinality({k \in 1 .. Len(frames) : frames[k].type = TYPE_IPv4})

\* The frames the step pushed on interface n's ready-to-be-sent queue.
PushedBy(n) == Pushed(ready2_sent_q[n], ready2_sent_q'[n])

\* The step is a send_datagram call on interface n towards X.
SendStep(n, X) ==
  /\ lastOp'.op = "send_datagram" /\ lastOp'.iface = n /\ lastOp'.next_hop = X
  /\ nextId' = nextId + 1

TickStep(n) ==
  lastOp'.op = "tick" /\ lastOp'.iface = n /\ ticks' = ticks + 1

\* frame carries an ARP reply from some peer to interface n's own IP address.
ReplyToUs(n, frame) ==
  /\ HeardARP(n, frame)
  /\ frame.payload.body.opcode = OPCODE_REPLY
  /\ frame.payload.body.target_ip_address = ip_address_(n)

\* The datagram items of q in the order of their send_datagram calls.
InSendOrder(q) ==
  \A i, j \in 1 .. Len(q) :
    i < j => q[i].waiting_frame.payload.body.id < q[j].waiting_frame.payload.body.id

----------------------------------------------------------------------------
\* C1  Resolution flush ordering.  Datagrams passed to send_datagram for an
\* unresolved next hop X join the back of the waiting queue in call order; an
\* ARP reply from X for the interface's own IP pushes exactly those datagrams
\* on the ready-to-be-sent queue, in that order, each addressed to the reply's
\* sender link address, and leaves none of them in the waiting queue.
C1_Flushed(frame) ==
  LET X == frame.payload.body.sender_ip_address
      mac == frame.payload.body.sender_ethernet_address
      pend == ItemsFor(waiting_q[0], X)
  IN /\ Len(PushedBy(0)) = Len(pend)
     /\ \A k \in 1 .. Len(pend) :
          PushedBy(0)[k] = [dst |-> mac, src |-> ethernet_address_(0), type |-> TYPE_IPv4,
                            payload |-> pend[k].waiting_frame.payload]
     /\ ItemsFor(waiting_q'[0], X) = <<>>

C1_Queued(X) ==
  LET item == [dst_ip |-> X,
               waiting_frame |-> [dst |-> ZeroMac, src |-> ethernet_address_(0),
                                  type |-> TYPE_IPv4,
                                  payload |-> serialize_dgram(lastOp'.dgram)],
               time |-> curr_time]
  IN IPv4Items(waiting_q'[0]) = Append(IPv4Items(waiting_q[0]), item)

C1_FlushOrdering ==
  [][ /\ InSendOrder(IPv4Items(waiting_q[0]))
      /\ \A X \in PeerIPs :
           (SendStep(0, X) /\ X \notin DOMAIN ARP_table[0]) => C1_Queued(X)
      /\ \A f \in RecvFrames(0) :
           (lastOp'.op = "recv_frame" /\ ReplyToUs(0, f) /\ RecvFrame(0, f))
             => C1_Flushed(f) ]_vars

\* Two datagrams queued for IpX were flushed, in order, to the resolved address.
C1_Witness ==
  /\ lastOp.op = "recv_frame"
  /\ Len(appended[0]) = 2
  /\ appended[0][1].payload.body.id = 1 /\ appended[0][2].payload.body.id = 2
  /\ appended[0][1].dst = MacB /\ appended[0][2].dst = MacB
  /\ ItemsFor(waiting_q[0], IpX) = <<>>

----------------------------------------------------------------------------
\* C2  Retry throttling.  No call pushes more than one broadcast ARP request
\* for an IP X; a request for X is pushed only when MAX_WAITING_TIME or more
\* has passed on the clock since the previous request for X (requests of
\* send_datagram and of tick alike); and a send_datagram to an unresolved X
\* made MAX_WAITING_TIME or more after the previous request pushes exactly one.
C2_Throttled(X) ==
  /\ RequestsFor(PushedBy(0), X) <= 1
  /\ (RequestsFor(PushedBy(0), X) = 1 /\ X \in DOMAIN lastReqAt[0])
       => curr_time' - lastReqAt[0][X] >= MAX_WAITING_TIME

C2_Retried(X) ==
  (/\ SendStep(0, X)
   /\ X \notin DOMAIN ARP_table[0]
   /\ X \in DOMAIN lastReqAt[0]
   /\ curr_time - lastReqAt[0][X] >= MAX_WAITING_TIME)
  => RequestsFor(PushedBy(0), X) = 1

C2_RetryThrottling ==
  [][ \A X \in PeerIPs : C2_Throttled(X) /\ C2_Retried(X) ]_vars

\* A second request for IpX went out with a send made after the retry interval,
\* while an earlier datagram for IpX is still waiting.
C2_Witness ==
  /\ lastOp.op = "send_datagram" /\ lastOp.next_hop = IpX
  /\ RequestsFor(appended[0], IpX) = 1
  /\ curr_time >= MAX_WAITING_TIME
  /\ Len(ItemsFor(waiting_q[0], IpX)) = 2
  /\ ItemsFor(waiting_q[0], IpX)[1].time = 0

----------------------------------------------------------------------------
\* C3  Cache expiry.  When the last ARP message from X was heard at time L and
\* the clock has since passed L + MAX_CACHE_TIME, the first send_datagram to X
\* made after that pushes a broadcast ARP request for X and no IPv4 frame.
C3_NextSendAfterExpiry(X) ==
  /\ SendStep(0, X)
  /\ X \in DOMAIN learnedAt[0]
  /\ curr_time - learnedAt[0][X] > MAX_CACHE_TIME
  /\ (X \in DOMAIN lastSendAt[0]
        => lastSendAt[0][X] - learnedAt[0][X] <= MAX_CACHE_TIME)

C3_CacheExpiry ==
  [][ \A X \in PeerIPs :
        C3_NextSendAfterExpiry(X)
        => (RequestsFor(PushedBy(0), X) = 1 /\ IPv4Frames(PushedBy(0)) = 0) ]_vars

----------------------------------------------------------------------------
\* C7  No datagram loss while unresolved.  A datagram item leaves the waiting
\* queue only in a recv_frame of an ARP reply, from the item's next hop to the
\* interface's own IP, which pushes its frame on the ready-to-be-sent queue;
\* tick leaves the datagram items of the waiting queue as they are, whatever
\* the time elapsed.
C7_ResolvedBy(p) ==
  /\ lastOp'.op = "recv_frame"
  /\ \E f \in RecvFrames(0) :
       /\ ReplyToUs(0, f)
       /\ f.payload.body.sender_ip_address = p.dst_ip
       /\ RecvFrame(0, f)
  /\ \E k \in 1 .. Len(PushedBy(0)) : PushedBy(0)[k].payload = p.waiting_frame.payload

C7_Kept(p) ==
  \E k \in 1 .. Len(waiting_q'[0]) : waiting_q'[0][k] = p

C7_NoDatagramLoss ==
  [][ /\ \A i \in 1 .. Len(IPv4Items(waiting_q[0])) :
           C7_Kept(IPv4Items(waiting_q[0])[i]) \/ C7_ResolvedBy(IPv4Items(waiting_q[0])[i])
      /\ TickStep(0) => IPv4Items(waiting_q'[0]) = IPv4Items(waiting_q[0]) ]_vars

\* A datagram queued at time 0 is still waiting after a tick of more than
\* MAX_CACHE_TIME.
C7_Witness ==
  /\ lastOp.op = "tick" /\ lastOp.ms > MAX_CACHE_TIME
  /\ IPv4Items(waiting_q[0]) # <<>>
  /\ IPv4Items(waiting_q[0])[1].time = 0

----------------------------------------------------------------------------
\* C8  Tick-driven retransmission.  A tick after which X still has a datagram
\* in the waiting queue, and at which now - request_history[X] >=
\* MAX_WAITING_TIME, pushes exactly one broadcast ARP request for X and sets
\* request_history[X] to now.
C8_RetryDue(X) ==
  /\ TickStep(0)
  /\ ItemsFor(waiting_q'[0], X) # <<>>
  /\ X \in DOMAIN request_history[0]
  /\ curr_time' - request_history[0][X] >= MAX_WAITING_TIME

C8_TickRetransmits ==
  [][ \A X \in PeerIPs :
        C8_RetryDue(X)
        => /\ RequestsFor(PushedBy(0), X) = 1
           /\ request_history'[0][X] = curr_time' ]_vars

----------------------------------------------------------------------------
\* C9  Indefinite retransmission.  The statement is about behaviours in which
\* tick is called for ever and the clock grows without bound while a datagram
\* for X waits: broadcast ARP requests for X are then pushed infinitely often.
\* curr_time is part of the state and every tick of a positive time increases
\* it, so no behaviour of a finite-state model meets that premise, and the
\* statement is decided neither way here.  What is established is the step
\* every such behaviour is made of, for the ticks of TickSteps from every
\* reachable state:
\*   a tick pushes a request for X only when the waiting queue holds an
\*   ARP-request item for X (C9_TickNeedsMarker), and
\*   a tick adds no ARP-request item, and removes one for each IP it pushes a
\*   request for (C9_TickAddsNoMarker).
C9_TickNeedsMarker ==
  [][ TickStep(0)
      => \A X \in PeerIPs :
           RequestsFor(PushedBy(0), X) >= 1
           => \E k \in 1 .. Len(waiting_q[0]) :
                /\ waiting_q[0][k].dst_ip = X
                /\ waiting_q[0][k].waiting_frame.type = TYPE_ARP ]_vars

C9_MarkersFor(q, X) ==
  SelectSeq(q, LAMBDA p : p.dst_ip = X /\ p.waiting_frame.type = TYPE_ARP)

C9_TickAddsNoMarker ==
  [][ TickStep(0)
      => \A X \in PeerIPs :
           /\ Len(C9_MarkersFor(waiting_q'[0], X)) <= Len(C9_MarkersFor(waiting_q[0], X))
           /\ RequestsFor(PushedBy(0), X) >= 1
                => Len(C9_MarkersFor(waiting_q'[0], X))
                     < Len(C9_MarkersFor(waiting_q[0], X)) ]_vars

----------------------------------------------------------------------------
\* C10  Send on cache hit.  A send_datagram whose next hop has a cache entry
\* pushes exactly one frame (IPv4, to the cached link address, from the
\* interface's own address, carrying the datagram) and leaves the waiting
\* queue, the request history and the cache as they were.
C10_HitFrame(X) ==
  [dst |-> ARP_table[0][X].MAC_addr, src |-> ethernet_address_(0), type |-> TYPE_IPv4,
   payload |-> serialize_dgram(lastOp'.dgram)]

C10_SendOnHit ==
  [][ \A X \in PeerIPs :
        (SendStep(0, X) /\ X \in DOMAIN ARP_table[0])
        => /\ ready2_sent_q'[0] = Append(ready2_sent_q[0], C10_HitFrame(X))
           /\ RequestsFor(PushedBy(0), X) = 0
           /\ UNCHANGED <<waiting_q, request_history, ARP_table>> ]_vars

\* A datagram for the cached IpX went out addressed to MacB.
C10_Witness ==
  /\ lastOp.op = "send_datagram" /\ lastOp.next_hop = IpX
  /\ IpX \in DOMAIN ARP_table[0] /\ ARP_table[0][IpX].MAC_addr = MacB
  /\ Len(appended[0]) = 1
  /\ appended[0][1].type = TYPE_IPv4 /\ appended[0][1].dst = MacB
  /\ appended[0][1].payload = serialize_dgram(lastOp.dgram)

----------------------------------------------------------------------------
\* Vocabulary of the routing properties

\* The step is a route_single_dgram call.
RouteStep ==
  lastOp'.op = "route_single_dgram" /\ nextId' = nextId + 1

\* The mask with the top prefix_length bits set.
TopBits(prefix_length) == [i \in Bits32 |-> IF i <= prefix_length THEN 1 ELSE 0]

\* Entry k (1-based) of table matches dest: dest & mask = prefix.
Matches(table, k, dest) ==
  BitAnd(TopBits(table[k].prefix_length_), ToWord(dest)) = ToWord(table[k].route_prefix_)

MatchingEntries(table, dest) == {k \in 1 .. Len(table) : Matches(table, k, dest)}

\* The matching entry of maximal prefix length and, among those, of highest
\* insertion index; 0 when no entry matches.
LongestMatch(table, dest) ==
  IF MatchingEntries(table, dest) = {} THEN 0
  ELSE CHOOSE k \in MatchingEntries(table, dest) :
         \A j \in MatchingEntries(table, dest) :
           \/ table[j].prefix_length_ < table[k].prefix_length_
           \/ (table[j].prefix_length_ = table[k].prefix_length_ /\ j <= k)

ValidLengths(table) == \A k \in 1 .. Len(table) : table[k].prefix_length_ \in 0 .. 32

\* No interface's queues change in the step.
NoInterfaceTouched ==
  UNCHANGED <<ARP_table, request_history, waiting_q, ready2_sent_q>>

----------------------------------------------------------------------------
\* C4  Longest-prefix lookup with tie-break.  For every routing table built by
\* add_route and every destination, the route found is the matching entry
\* (destination & mask(prefix_length) = prefix) of maximal prefix_length and,
\* among those, of highest insertion index; no route is found when no entry
\* matches.
C4_LongestPrefix ==
  \A dest \in Destinations :
    FindRoute(routing_table_, dest) + 1 = LongestMatch(routing_table_, dest)

\* The same statement for the tables whose prefix lengths all lie in 0..32.
C4_LongestPrefixValidLengths ==
  ValidLengths(routing_table_) => C4_LongestPrefix

----------------------------------------------------------------------------
\* C5  TTL boundary.  A datagram arriving with TTL 0 or 1 reaches no
\* interface's send_datagram; with TTL 0 it is left as it arrived and no
\* checksum is computed; a datagram handed to send_datagram carries its
\* arrival TTL minus 1, which is at least 1.
C5_Dropped ==
  lastOp'.arrival.ttl \in {0, 1} => (lastOp'.send = None /\ NoInterfaceTouched)

C5_Untouched ==
  lastOp'.arrival.ttl = 0 => (lastOp'.dgram = lastOp'.arrival /\ lastOp'.checksums = 0)

C5_Handed ==
  lastOp'.send # None
  => /\ lastOp'.dgram.ttl = lastOp'.arrival.ttl - 1
     /\ lastOp'.dgram.ttl >= 1
     /\ \E k \in Ifaces :
          /\ waiting_q'[k] # <<>>
          /\ waiting_q'[k][Len(waiting_q'[k])].waiting_frame.payload
               = serialize_dgram(lastOp'.dgram)

C5_TTLBoundary ==
  [][ RouteStep => (C5_Dropped /\ C5_Untouched /\ C5_Handed) ]_vars

\* A datagram that arrived with TTL 1 and had a route was decremented, then dropped.
C5_Witness ==
  /\ lastOp.op = "route_single_dgram"
  /\ lastOp.arrival.ttl = 1 /\ lastOp.dgram.ttl = 0
  /\ lastOp.send = None
  /\ appended = [k \in Ifaces |-> <<>>]

----------------------------------------------------------------------------
\* C6  Next-hop selection.  A datagram arriving with TTL >= 2 that has a
\* matching route is passed to send_datagram of exactly the interface named by
\* the selected route, with the route's next_hop if present and the
\* datagram's destination otherwise; with no matching route it is passed to
\* no interface.
C6_Selected == LongestMatch(routing_table_, lastOp'.arrival.dst)

C6_Routed ==
  LET elem == routing_table_[C6_Selected]
  IN /\ lastOp'.send # None
     /\ lastOp'.send.interface = elem.interface_num_
     /\ lastOp'.send.next_hop =
          (IF elem.next_hop_ # None THEN elem.next_hop_ ELSE lastOp'.arrival.dst)
     /\ \A k \in Ifaces \ {elem.interface_num_} :
          waiting_q'[k] = waiting_q[k] /\ ready2_sent_q'[k] = ready2_sent_q[k]
     /\ IPv4Items(waiting_q'[elem.interface_num_]) =
          Append(IPv4Items(waiting_q[elem.interface_num_]),
                 Waiting_Packet(lastOp'.send.next_hop,
                                ether_frame_no_MAC(elem.interface_num_, lastOp'.dgram),
                                curr_time))

C6_NextHopSelection ==
  [][ (RouteStep /\ lastOp'.arrival.ttl >= 2)
      => IF C6_Selected # 0 THEN C6_Routed
         ELSE lastOp'.send = None /\ NoInterfaceTouched ]_vars

\* The same statement for the tables whose prefix lengths all lie in 0..32.
C6_NextHopSelectionValidLengths ==
  [][ (RouteStep /\ lastOp'.arrival.ttl >= 2 /\ ValidLengths(routing_table_))
      => IF C6_Selected # 0 THEN C6_Routed
         ELSE lastOp'.send = None /\ NoInterfaceTouched ]_vars


----------------------------------------------------------------------------
\* Vocabulary of the later properties

\* The broadcast ARP request interface n sends for X, field by field.
RequestFrameFor(n, X) ==
  [dst |-> ETHERNET_BROADCAST, src |-> ethernet_address_(n), type |-> TYPE_ARP,
   payload |-> [kind |-> TYPE_ARP,
                body |-> [opcode |-> OPCODE_REQUEST,
                          sender_ethernet_address |-> ethernet_address_(n),
                          sender_ip_address |-> ip_address_(n),
                          target_ethernet_address |-> ZeroMac,
                          target_ip_address |-> X]]]

\* q2 is q1 with one item at the back: the step's datagram, tagged X.
GrewByDatagram(q1, q2, X) ==
  /\ Len(q2) = Len(q1) + 1
  /\ SubSeq(q2, 1, Len(q1)) = q1
  /\ q2[Len(q2)].dst_ip = X
  /\ q2[Len(q2)].waiting_frame.type = TYPE_IPv4
  /\ q2[Len(q2)].waiting_frame.payload = serialize_dgram(lastOp'.dgram)

----------------------------------------------------------------------------
\* C11  Send on first miss.  A send_datagram whose next hop X has neither a
\* cache entry nor a request_history record sets request_history[X] to now,
\* pushes exactly one frame, the broadcast ARP request for X, and puts the
\* datagram at the back of the waiting queue tagged X.
C11_FirstMiss(X) ==
  /\ SendStep(0, X)
  /\ X \notin DOMAIN ARP_table[0]
  /\ X \notin DOMAIN request_history[0]

C11_SendOnFirstMiss ==
  [][ \A X \in PeerIPs :
        C11_FirstMiss(X)
        => /\ request_history'[0] = MapPut(request_history[0], X, curr_time)
           /\ ready2_sent_q'[0] = Append(ready2_sent_q[0], RequestFrameFor(0, X))
           /\ GrewByDatagram(waiting_q[0], waiting_q'[0], X)
           /\ UNCHANGED ARP_table ]_vars

\* The first datagram ever sent went to the unknown IpX.
C11_Witness ==
  /\ lastOp.op = "send_datagram" /\ lastOp.next_hop = IpX /\ lastOp.dgram.id = 1
  /\ IpX \notin DOMAIN ARP_table[0]
  /\ appended[0] = <<RequestFrameFor(0, IpX)>>
  /\ request_history[0][IpX] = curr_time
  /\ Len(waiting_q[0]) = 1


----------------------------------------------------------------------------
\* C12  Send on miss while a request is in flight.  A send_datagram whose next
\* hop X has no cache entry and a request_history record younger than
\* MAX_WAITING_TIME leaves the ready-to-be-sent queue and request_history as
\* they were, and the waiting queue grows by exactly one item, the datagram.
C12_InFlight(X) ==
  /\ SendStep(0, X)
  /\ X \notin DOMAIN ARP_table[0]
  /\ X \in DOMAIN request_history[0]
  /\ curr_time - request_history[0][X] < MAX_WAITING_TIME

C12_SendWhileInFlight ==
  [][ \A X \in PeerIPs :
        C12_InFlight(X)
        => /\ ready2_sent_q'[0] = ready2_sent_q[0]
           /\ request_history'[0] = request_history[0]
           /\ GrewByDatagram(waiting_q[0], waiting_q'[0], X) ]_vars

\* The part of the statement about the two other objects.
C12_NoRequestWhileInFlight ==
  [][ \A X \in PeerIPs :
        C12_InFlight(X)
        => /\ ready2_sent_q'[0] = ready2_sent_q[0]
           /\ request_history'[0] = request_history[0] ]_vars


----------------------------------------------------------------------------
\* C13  Gratuitous learning.  Every well-formed ARP frame addressed to the
\* interface or to everyone, request or reply and whatever its target IP, puts
\* [sender link address, now] in the cache under its sender IP; a send_datagram
\* to that IP made right after is framed to that link address and pushes no
\* ARP request.
C13_Learned(frame, after) ==
  LET msg == frame.payload.body
  IN /\ msg.sender_ip_address \in DOMAIN after.ARP_table
     /\ after.ARP_table[msg.sender_ip_address] =
          [MAC_addr |-> msg.sender_ethernet_address, caching_time |-> curr_time]

C13_NextSendFramed(frame, after) ==
  LET msg == frame.payload.body
      dgram == SentDgram(nextId, msg.sender_ip_address)
      sent == send_datagram(after, curr_time, 0, dgram, msg.sender_ip_address)
  IN /\ sent.ready2_sent_q =
          Append(after.ready2_sent_q,
                 [dst |-> msg.sender_ethernet_address, src |-> ethernet_address_(0),
                  type |-> TYPE_IPv4, payload |-> serialize_dgram(dgram)])
     /\ sent.waiting_q = after.waiting_q

\* In every reachable state, for every frame that can arrive.
C13_GratuitousLearning ==
  \A f \in RecvFrames(0) :
    HeardARP(0, f)
    => \A r \in {recv_frame(IfaceState(0), curr_time, 0, f)} :
         C13_Learned(f, r.state) /\ C13_NextSendFramed(f, r.state)

\* IpX was learnt, after the clock had advanced, from a frame that was not a
\* reply to the interface: its datagram is still waiting and nothing was pushed.
C13_Witness ==
  /\ lastOp.op = "recv_frame"
  /\ curr_time > 0
  /\ IpX \in DOMAIN ARP_table[0]
  /\ ARP_table[0][IpX] = [MAC_addr |-> MacB, caching_time |-> curr_time]
  /\ appended[0] = <<>>
  /\ ItemsFor(waiting_q[0], IpX) # <<>>


----------------------------------------------------------------------------
\* C14  ARP reply generation.  recv_frame of an ARP request pushes exactly one
\* frame, a unicast ARP reply to the requester's link address whose sender
\* fields are the interface's own link and IP address, if the request's
\* target IP is the interface's IP, and pushes no frame otherwise.
C14_ReplyFrame(msg) ==
  [dst |-> msg.sender_ethernet_address, src |-> ethernet_address_(0), type |-> TYPE_ARP,
   payload |-> [kind |-> TYPE_ARP,
                body |-> [opcode |-> OPCODE_REPLY,
                          sender_ethernet_address |-> ethernet_address_(0),
                          sender_ip_address |-> ip_address_(0),
                          target_ethernet_address |-> msg.sender_ethernet_address,
                          target_ip_address |-> msg.sender_ip_address]]]

C14_IsRequest(frame) ==
  HeardARP(0, frame) /\ frame.payload.body.opcode = OPCODE_REQUEST

\* In every reachable state, for every request that can arrive.
C14_ReplyGeneration ==
  \A f \in RecvFrames(0) :
    C14_IsRequest(f)
    => \A r \in {recv_frame(IfaceState(0), curr_time, 0, f)} :
         Pushed(ready2_sent_q[0], r.state.ready2_sent_q) =
           (IF f.payload.body.target_ip_address = ip_address_(0)
            THEN <<C14_ReplyFrame(f.payload.body)>> ELSE <<>>)

\* A request for the interface's IP was answered to the requester MacB.
C14_Witness ==
  /\ lastOp.op = "recv_frame"
  /\ Len(appended[0]) = 1
  /\ appended[0][1].type = TYPE_ARP /\ appended[0][1].dst = MacB
  /\ appended[0][1].payload.body.opcode = OPCODE_REPLY
  /\ appended[0][1].payload.body.sender_ip_address = ip_address_(0)


----------------------------------------------------------------------------
\* C15  Per-interface clock.  A tick on one interface changes only that
\* interface's cache, request history and queues, and leaves the clock every
\* other interface reads as it was.
C15_OthersUntouched(n) ==
  \A k \in Ifaces \ {n} :
    /\ ARP_table'[k] = ARP_table[k]
    /\ request_history'[k] = request_history[k]
    /\ waiting_q'[k] = waiting_q[k]
    /\ ready2_sent_q'[k] = ready2_sent_q[k]

C15_PerInterfaceClock ==
  [][ \A n \in Ifaces :
        TickStep(n)
        => /\ C15_OthersUntouched(n)
           /\ \A k \in Ifaces \ {n} : ClockSeenBy(k)' = ClockSeenBy(k) ]_vars

\* The part of the statement about the other interfaces' members.
C15_OtherMembersUntouched ==
  [][ \A n \in Ifaces : TickStep(n) => C15_OthersUntouched(n) ]_vars

\* What the shared clock does to the retry test of interface 1: when the only
\* tick so far was made on interface 0, a send_datagram on interface 1 towards
\* an IP it has already requested pushes no second request.
C15_RetryTestOfOtherInterface ==
  [][ \A X \in PeerIPs :
        (/\ ticks = 1 /\ lastOp.op = "tick" /\ lastOp.iface = 0
         /\ SendStep(1, X)
         /\ X \in DOMAIN lastReqAt[1])
        => RequestsFor(PushedBy(1), X) = 0 ]_vars


----------------------------------------------------------------------------
\* C16  Route validation.  add_route rejects a prefix_length above 32: the
\* routing table never holds an entry whose prefix_length is outside 0..32,
\* and no lookup selects such an entry.
C16_NeverSelected ==
  \A dest \in Destinations :
    FindRoute(routing_table_, dest) # -1
    => routing_table_[FindRoute(routing_table_, dest) + 1].prefix_length_ \in 0 .. 32

C16_RouteValidation ==
  ValidLengths(routing_table_) /\ C16_NeverSelected


----------------------------------------------------------------------------
\* C17  Non-matching items survive a flush.  When recv_frame handles an ARP
\* reply from X for the interface's IP, the waiting items whose next hop is
\* not X stay in the waiting queue in the same relative order, and none of
\* them is pushed on the ready-to-be-sent queue.
C17_Others(q, X) == SelectSeq(q, LAMBDA p : p.dst_ip # X)

C17_NonePushed(q, pushed, X) ==
  \A k \in 1 .. Len(pushed) :
    \A i \in 1 .. Len(C17_Others(q, X)) :
      pushed[k].payload # C17_Others(q, X)[i].waiting_frame.payload

\* In every reachable state, for every reply that can arrive.
C17_OthersSurviveFlush ==
  \A f \in RecvFrames(0) :
    ReplyToUs(0, f)
    => \A r \in {recv_frame(IfaceState(0), curr_time, 0, f)} :
         /\ C17_Others(r.state.waiting_q, f.payload.body.sender_ip_address)
              = C17_Others(waiting_q[0], f.payload.body.sender_ip_address)
         /\ C17_NonePushed(waiting_q[0],
                           Pushed(ready2_sent_q[0], r.state.ready2_sent_q),
                           f.payload.body.sender_ip_address)

\* A reply from IpX flushed a datagram while a datagram for IpY kept waiting.
C17_Witness ==
  /\ lastOp.op = "recv_frame"
  /\ Len(appended[0]) >= 1
  /\ appended[0][1].type = TYPE_IPv4 /\ appended[0][1].payload.body.dst = IpX
  /\ ItemsFor(waiting_q[0], IpY) # <<>>
  /\ ItemsFor(waiting_q[0], IpX) = <<>>


----------------------------------------------------------------------------
\* C18  No stranded datagram.  In every reachable state, when the cache holds
\* an entry for X the waiting queue holds no datagram item whose next hop is X.
C18_NoStrandedDatagram ==
  \A X \in PeerIPs :
    X \in DOMAIN ARP_table[0] => ItemsFor(waiting_q[0], X) = <<>>


----------------------------------------------------------------------------
\* C19  Per-next-hop order preservation.  The IPv4 frames for a next hop X
\* reach the ready-to-be-sent queue in the order of their send_datagram
\* calls: when a frame for X is pushed, no datagram sent earlier to X is still
\* waiting, and frames for X pushed together are in call order.  (Datagram
\* ids grow with the calls, and a datagram's destination is its next hop.)
C19_NoEarlierWaiting(f) ==
  \A i \in 1 .. Len(waiting_q'[0]) :
    (/\ waiting_q'[0][i].waiting_frame.type = TYPE_IPv4
     /\ waiting_q'[0][i].dst_ip = f.payload.body.dst)
    => waiting_q'[0][i].waiting_frame.payload.body.id > f.payload.body.id

C19_InOrder ==
  /\ \A k \in 1 .. Len(PushedBy(0)) :
       PushedBy(0)[k].type = TYPE_IPv4 => C19_NoEarlierWaiting(PushedBy(0)[k])
  /\ \A j, k \in 1 .. Len(PushedBy(0)) :
       (/\ j < k
        /\ PushedBy(0)[j].type = TYPE_IPv4 /\ PushedBy(0)[k].type = TYPE_IPv4
        /\ PushedBy(0)[j].payload.body.dst = PushedBy(0)[k].payload.body.dst)
       => PushedBy(0)[j].payload.body.id < PushedBy(0)[k].payload.body.id

C19_OrderPreservation == [][ C19_InOrder ]_vars

\* The same statement for the steps taken from a state without a stranded
\* datagram.
C19_OrderWhenNotStranded == [][ C18_NoStrandedDatagram => C19_InOrder ]_vars


----------------------------------------------------------------------------
\* C20  Retry-marker retention.  An ARP-request item of the waiting queue
\* (timestamp SIZE_MAX) is kept by every tick at which the retransmission for
\* its IP is not due, at any clock value; such items leave the queue only in a
\* tick that retransmits the request for their IP or in a recv_frame of an ARP
\* reply.
C20_Markers(q, X) ==
  SelectSeq(q, LAMBDA p : p.dst_ip = X /\ p.waiting_frame.type = TYPE_ARP)

C20_NotDue(X) ==
  /\ X \in DOMAIN request_history[0]
  /\ curr_time' - request_history[0][X] < MAX_WAITING_TIME

C20_MarkerRetention ==
  [][ \A X \in PeerIPs :
        /\ (TickStep(0) /\ C20_NotDue(X))
             => C20_Markers(waiting_q'[0], X) = C20_Markers(waiting_q[0], X)
        /\ Len(C20_Markers(waiting_q'[0], X)) < Len(C20_Markers(waiting_q[0], X))
             => \/ TickStep(0) /\ RequestsFor(PushedBy(0), X) = 1
                \/ lastOp'.op = "recv_frame" ]_vars

====
